---- MODULE Spec2Model ----
(***************************************************************************)
(* Model of src/plays.py: the play recommendation (filter_by_depth,        *)
(* suggest_play) and the Google-Sheet logging handlers (add_favorite,      *)
(* log_play_result) of the Streamlit play-caller script.                   *)
(*                                                                         *)
(* Text is modelled as a sequence of one-character strings, so that        *)
(* lower-casing and substring search are computed, not assumed.            *)
(* Numbers: effectiveness values are in tenths (9 is 0.9), the coverage    *)
(* slider is in hundredths (its step is 0.01), scores are in thousandths.  *)
(* The arithmetic is exact; the code's binary floating point is not        *)
(* modelled.                                                               *)
(*                                                                         *)
(* Taken as given: the widgets work as laid out (one button click or       *)
(* slider move per script run), "Play Depth" is read as a text column, and *)
(* random.choices is that of Python 3.9 or later (it raises ValueError on  *)
(* an all-zero total; earlier versions return the last item instead).      *)
(***************************************************************************)
EXTENDS Integers, Sequences, FiniteSets

VARIABLES
    df,                 \* the loaded play table (line 47), a sequence of rows
    selected_down,      \* st.session_state.selected_down
    selected_distance,  \* st.session_state.selected_distance
    coverage,           \* st.session_state.coverage (slider), in hundredths
    current_play,       \* st.session_state.current_play: <<>> is None, else <<row>>
    favorites,          \* st.session_state.favorites: a set of Play IDs
    results_sheet,      \* rows appended to worksheet "results" in this session
    fav_sheet,          \* rows appended to worksheet "favorite_plays" in this session
    now,                \* the clock read by datetime.now(): one tick per script run
    sp,                 \* the locals of suggest_play in the last script run
    run                 \* what the last script run did (handler, append calls, messages)

vars == <<df, selected_down, selected_distance, coverage, current_play,
          favorites, results_sheet, fav_sheet, now, sp, run>>

-----------------------------------------------------------------------------
(* Bounds of the model *)

\* rows of a freely composed play table
MaxRich == 2
\* rows of a play table built to overflow the top-10 slice
MaxRows == 11
\* script runs (button clicks) of one session
MaxRuns == 6

-----------------------------------------------------------------------------
(* Text *)

UpperCase == <<"A","B","C","D","E","F","G","H","I","J","K","L","M",
               "N","O","P","Q","R","S","T","U","V","W","X","Y","Z">>
LowerCase == <<"a","b","c","d","e","f","g","h","i","j","k","l","m",
               "n","o","p","q","r","s","t","u","v","w","x","y","z">>

\* str.lower() on one character
LowerChar(c) ==
    IF \E i \in DOMAIN UpperCase : UpperCase[i] = c
    THEN LowerCase[CHOOSE i \in DOMAIN UpperCase : UpperCase[i] = c]
    ELSE c

\* str.lower()
Lower(s) == [i \in DOMAIN s |-> LowerChar(s[i])]

\* Python's `pat in s`
Contains(s, pat) ==
    \E i \in 1..(Len(s) - Len(pat) + 1) : SubSeq(s, i, i + Len(pat) - 1) = pat

\* a missing cell (NaN) of a text column
NaN == <<"<NaN>">>
\* str(x): a missing cell prints as "nan"
Str(x) == IF x = NaN THEN <<"n","a","n">> ELSE x

T_short      == <<"s","h","o","r","t">>
T_medium     == <<"m","e","d","i","u","m">>
T_long       == <<"l","o","n","g">>
T_Medium     == <<"M","e","d","i","u","m">>
T_LONG       == <<"L","O","N","G">>
T_ShortLong  == <<"S","h","o","r","t","/","L","o","n","g">>
T_dropback   == <<"d","r","o","p","b","a","c","k">>
T_rpo        == <<"r","p","o">>
T_run_option == <<"r","u","n","_","o","p","t","i","o","n">>
T_RPO        == <<"R","P","O">>
T_Screen     == <<"W","R"," ","S","c","r","e","e","n">>
T_screen     == <<"s","c","r","e","e","n">>
T_Draw       == <<"D","r","a","w">>

-----------------------------------------------------------------------------
(* The play table *)

\* an optional number: <<>> is a missing cell, <<v>> holds v
Missing == <<>>

\* one row of the spreadsheet as read by pd.read_excel
XlsxRow(id, cat, depth, man, zone) ==
    [PlayID |-> id, PlayName |-> id, Category |-> cat,
     PlayDepth |-> depth, Man |-> man, Zone |-> zone]

rpo_keywords == {T_rpo, T_screen}

\* the lambda of load_data: "rpo" if any keyword is in str(x).lower(), else x
Cleaned(x) ==
    IF \E k \in rpo_keywords : Contains(Lower(Str(x)), k) THEN T_rpo ELSE x

\* load_data: the sheet with pandas' RangeIndex and the added column
\* "Play Type Category Cleaned"
load_data(xlsx) ==
    [i \in DOMAIN xlsx |->
        [Index |-> i, PlayID |-> xlsx[i].PlayID, PlayName |-> xlsx[i].PlayName,
         Category |-> xlsx[i].Category, Cleaned |-> Cleaned(xlsx[i].Category),
         PlayDepth |-> xlsx[i].PlayDepth, Man |-> xlsx[i].Man, Zone |-> xlsx[i].Zone]]

Range(s) == {s[i] : i \in DOMAIN s}

-----------------------------------------------------------------------------
(* Session inputs *)

Downs     == {"1st", "2nd", "3rd"}
Distances == {"short", "medium", "long"}
\* the slider runs from 0.0 to 1.0; these positions of it are explored
CoverageMin == 0
CoverageMax == 100
CoverageDefault == 50
CoverageSteps == {CoverageMin, 30, CoverageDefault, CoverageMax}

-----------------------------------------------------------------------------
(* filter_by_depth *)

\* the cell test with the letter case not ignored (case=False dropped)
DepthContainsCaseSensitive(depth) ==
    IF depth = NaN THEN FALSE
    ELSE Contains(depth, T_medium) \/ Contains(depth, T_long)

\* Series.str.contains("medium|long", case=False, na=False) on one cell
DepthContainsMediumOrLong(depth) ==
    IF depth = NaN THEN FALSE
    ELSE Contains(Lower(depth), T_medium) \/ Contains(Lower(depth), T_long)

\* a depth filter that also narrows every other situation to the rows whose
\* tag holds the requested distance
filter_by_depth_exact(d, down, distance) ==
    IF down \in {"2nd", "3rd"} /\ distance = "long"
    THEN SelectSeq(d, LAMBDA r : r.PlayDepth # NaN
                        /\ (Contains(Lower(r.PlayDepth), T_medium)
                            \/ Contains(Lower(r.PlayDepth), T_long)))
    ELSE SelectSeq(d, LAMBDA r : r.PlayDepth # NaN
                        /\ Contains(Lower(r.PlayDepth),
                                    IF distance = "short" THEN T_short
                                    ELSE IF distance = "medium" THEN T_medium ELSE T_long))

filter_by_depth(d, down, distance) ==
    IF down = "1st" THEN d
    ELSE IF down \in {"2nd", "3rd"} /\ distance = "long"
         THEN SelectSeq(d, LAMBDA r : DepthContainsMediumOrLong(r.PlayDepth))
         ELSE d

-----------------------------------------------------------------------------
(* suggest_play *)

\* the keys of a weights dict, in insertion order
CategoryOrder == <<T_dropback, T_rpo, T_run_option>>
Categories == Range(CategoryOrder)

\* a weights dict, in tenths
WeightDict(dropback, rpo, run_option) ==
    [c \in Categories |->
        IF c = T_dropback THEN dropback ELSE IF c = T_rpo THEN rpo ELSE run_option]

\* the dict literal of suggest_play; "None" is Python's None
WeightTable ==
    [k \in {<<"1st", "None">>, <<"2nd", "long">>, <<"3rd", "long">>} |->
        IF k = <<"1st", "None">> THEN WeightDict(4, 3, 3)
        ELSE IF k = <<"2nd", "long">> THEN WeightDict(7, 3, 0)
        ELSE WeightDict(10, 0, 0)]

DefaultWeights == WeightDict(5, 3, 2)

\* dict.get(key, default)
DictGet(dict, key, default) == IF key \in DOMAIN dict THEN dict[key] ELSE default

\* a lookup in which the ("1st", None) entry answers for 1st down
weights_for_any_distance(down, distance) ==
    DictGet(WeightTable, <<down, IF down = "1st" THEN "None" ELSE distance>>, DefaultWeights)

\* the weights in effect for (down, distance)
weights_for(down, distance) == DictGet(WeightTable, <<down, distance>>, DefaultWeights)

\* the categories with at least one row in subset, in dict order
available_in(subset, weights) ==
    SelectSeq(CategoryOrder,
              LAMBDA c : c \in DOMAIN weights
                         /\ \E i \in DOMAIN subset : subset[i].Cleaned = c)

RECURSIVE SumWeights(_, _)
SumWeights(available, weights) ==
    IF available = <<>> THEN 0
    ELSE weights[Head(available)] + SumWeights(Tail(available), weights)

\* a draw that ignores the weights
choices_unweighted(available, weights) == Range(available)

\* random.choices(available, weights, k=1)[0]: the categories the draw can
\* return (a draw lands on an item only if its weight is positive)
choices(available, weights) == {c \in Range(available) : weights[c] > 0}

\* random.choices raises ValueError when the weights sum to zero (Python >= 3.9)
choices_raises(available, weights) == SumWeights(available, weights) <= 0

\* Series.fillna(0.5), in tenths
Half == 5
\* a fill with 0 in place of 0.5
fillna_zero(cell) == IF cell = Missing THEN 0 ELSE cell[1]
fillna(cell) == IF cell = Missing THEN Half ELSE cell[1]

\* the "Score" of one pool row, in thousandths
Score(r, category, cov) ==
    IF category = T_dropback
    THEN (CoverageMax - cov) * fillna(r.Man) + cov * fillna(r.Zone)
    ELSE CoverageMax * Half

\* pool: the rows of subset of the sampled category, with their Score column
pool_of(subset, category, cov) ==
    LET rows == SelectSeq(subset, LAMBDA r : r.Cleaned = category)
    IN  [i \in DOMAIN rows |-> [row |-> rows[i], Score |-> Score(rows[i], category, cov)]]

\* DataFrame.nlargest(n, "Score"), keep="first": p comes before q
Before(p, q) ==
    \/ p.Score > q.Score
    \/ p.Score = q.Score /\ p.row.Index < q.row.Index

TopK == 10

\* the whole pool in score order, not cut to n rows
nlargest_uncut(n, pool) ==
    LET rank(q) == Cardinality({p \in Range(pool) : Before(p, q)})
    IN  [k \in 1..Len(pool) |-> CHOOSE q \in Range(pool) : rank(q) = k - 1]

nlargest(n, pool) ==
    LET rank(q) == Cardinality({p \in Range(pool) : Before(p, q)})
        size == IF Len(pool) < n THEN Len(pool) ELSE n
    IN  [k \in 1..size |-> CHOOSE q \in Range(pool) : rank(q) = k - 1]

\* the locals of a suggest_play call that has not happened
NoCall ==
    [called |-> FALSE, subset |-> <<>>, weights |-> WeightDict(0, 0, 0),
     available |-> <<>>, category |-> <<>>, pool |-> <<>>, top |-> <<>>,
     ret |-> <<>>, raised |-> ""]

\* suggest_play: every way the call can end, each with the locals it ended
\* with. ret is <<>> for None, <<r>> for the sampled row of top (the play with
\* its Score); raised names an exception.
suggest_play(d, down, distance, cov) ==
    LET subset == filter_by_depth(d, down, distance)
        weights == weights_for(down, distance)
        available == available_in(subset, weights)
        begun == [NoCall EXCEPT !.called = TRUE, !.subset = subset,
                                !.weights = weights, !.available = available]
    IN  IF available = <<>> THEN {begun}
        ELSE IF choices_raises(available, weights)
        THEN {[begun EXCEPT !.raised = "ValueError"]}
        ELSE UNION {
               LET pool == pool_of(subset, category, cov)
                   top == nlargest(TopK, pool)
               IN  {[begun EXCEPT !.category = <<category>>, !.pool = pool,
                                  !.top = top, !.ret = <<top[k]>>]
                        : k \in DOMAIN top}
               : category \in choices(available, weights)}

-----------------------------------------------------------------------------
(* Play tables explored *)

\* the cells of one row, without its Play ID
Cells(cat, depth, man, zone) == [Category |-> cat, PlayDepth |-> depth, Man |-> man, Zone |-> zone]

\* rows a freely composed table is made of: the three weighted categories, the
\* two spellings load_data folds into "rpo", an unweighted and a missing
\* category; depth tags in three spellings, combined and missing; man/zone
\* effectiveness present, half present and missing
RichKinds ==
    { Cells(T_dropback,   T_short,     <<9>>,   <<1>>),
      Cells(T_dropback,   T_Medium,    <<1>>,   <<9>>),
      Cells(T_dropback,   T_LONG,      Missing, Missing),
      Cells(T_dropback,   NaN,         Missing, <<9>>),
      Cells(T_dropback,   T_ShortLong, <<2>>,   Missing),
      Cells(T_RPO,        T_LONG,      Missing, Missing),
      Cells(T_Screen,     T_short,     <<9>>,   <<1>>),
      Cells(T_run_option, T_Medium,    Missing, Missing),
      Cells(T_run_option, T_short,     <<1>>,   <<9>>),
      Cells(T_Draw,       T_LONG,      <<9>>,   <<9>>),
      Cells(NaN,          T_Medium,    Missing, Missing) }

\* rows of the tail of a table built to overflow the top-10 slice
TailKinds ==
    { Cells(T_dropback, T_LONG,   <<9>>,   <<1>>),
      Cells(T_dropback, T_Medium, <<1>>,   <<9>>),
      Cells(T_dropback, T_long,   Missing, Missing),
      Cells(T_RPO,      T_LONG,   Missing, Missing) }
Filler == Cells(T_dropback, T_LONG, Missing, Missing)
\* free rows at the end of such a table, after the filler rows
TailLen == 2

\* the sequences over S of length at most n
SeqsUpTo(S, n) == UNION {[1..k -> S] : k \in 0..n}

\* a spreadsheet whose rows have the given cells and the Play IDs 1, 2, ...
Sheet(cells) ==
    [i \in DOMAIN cells |->
        XlsxRow(i, cells[i].Category, cells[i].PlayDepth, cells[i].Man, cells[i].Zone)]

RichSheets == {Sheet(c) : c \in SeqsUpTo(RichKinds, MaxRich)}

LongSheets ==
    {Sheet([i \in 1..n |-> IF i <= n - TailLen THEN Filler ELSE tail[i - (n - TailLen)]])
        : n \in (TopK - 1)..MaxRows, tail \in [1..TailLen -> TailKinds]}

\* the spreadsheets of the sessions explored: a table with two dropback plays
\* and an rpo play, a table without any dropback play whose two rows share one
\* Play ID, and the empty table
SessionSheets ==
    { <<XlsxRow(1, T_dropback, T_LONG, <<9>>, <<1>>), XlsxRow(2, T_RPO, T_short, Missing, Missing),
        XlsxRow(3, T_dropback, T_short, Missing, <<9>>)>>,
      <<XlsxRow(1, T_Screen, T_LONG, Missing, Missing), XlsxRow(1, T_run_option, T_Medium, Missing, Missing)>>,
      <<>> }

-----------------------------------------------------------------------------
(* The session *)

\* a script run that has not happened or did nothing but redraw
Idle == [handler |-> "", appends |-> 0, shown |-> ""]

\* session state defaults (lines 28-35), the slider's default, the cached table
Init ==
    /\ df \in {load_data(x) : x \in SessionSheets}
    /\ selected_down = "1st"
    /\ selected_distance = "short"
    /\ coverage = CoverageDefault
    /\ current_play = <<>>
    /\ favorites = {}
    /\ results_sheet = <<>>
    /\ fav_sheet = <<>>
    /\ now = 0
    /\ sp = NoCall
    /\ run = Idle

\* every button click or slider move reruns the script once
Rerun(handler, appends, shown) ==
    /\ now < MaxRuns
    /\ now' = now + 1
    /\ run' = [handler |-> handler, appends |-> appends, shown |-> shown]

\* a down button (lines 118-120, 143-145)
SelectDown ==
    \E d \in Downs :
        /\ selected_down' = d
        /\ Rerun("down", 0, "")
        /\ sp' = NoCall
        /\ UNCHANGED <<df, selected_distance, coverage, current_play, favorites,
                       results_sheet, fav_sheet>>

\* a distance button (lines 126-128, 151-153)
SelectDistance ==
    \E d \in Distances :
        /\ selected_distance' = d
        /\ Rerun("distance", 0, "")
        /\ sp' = NoCall
        /\ UNCHANGED <<df, selected_down, coverage, current_play, favorites,
                       results_sheet, fav_sheet>>

\* the coverage slider (lines 133, 158)
SetCoverage ==
    \E c \in CoverageSteps :
        /\ coverage' = c
        /\ Rerun("coverage", 0, "")
        /\ sp' = NoCall
        /\ UNCHANGED <<df, selected_down, selected_distance, current_play, favorites,
                       results_sheet, fav_sheet>>

\* st.session_state.current_play = suggest_play(): an exception leaves the
\* assignment undone
Recommend(shown) ==
    \E o \in suggest_play(df, selected_down, selected_distance, coverage) :
        /\ sp' = o
        /\ current_play' = IF o.raised = "" THEN o.ret ELSE current_play
        /\ shown = (IF o.raised = "" THEN "" ELSE "exception")

\* the "Call a Play" button (lines 216-217)
CallPlay ==
    \E shown \in {"", "exception"} :
        /\ Recommend(shown)
        /\ Rerun("call_play", 0, shown)
        /\ UNCHANGED <<df, selected_down, selected_distance, coverage, favorites,
                       results_sheet, fav_sheet>>

\* a log_play_result that clears current_play whether or not the append raised
log_play_result_always_clears(play_name, down, distance, cov, success, ok) ==
    LET row == <<now, play_name, down, distance, cov, success>>
    IN  /\ current_play' = <<>>
        /\ IF ok
           THEN /\ results_sheet' = Append(results_sheet, row)
                /\ Rerun("log_play_result", 1, "toast")
           ELSE /\ UNCHANGED results_sheet
                /\ Rerun("log_play_result", 1, "error")

\* log_play_result: one results_sheet.append_row(row), which returns (ok) or raises
log_play_result(play_name, down, distance, cov, success, ok) ==
    LET row == <<now, play_name, down, distance, cov, success>>
    IN  IF ok
        THEN /\ results_sheet' = Append(results_sheet, row)
             /\ current_play' = <<>>
             /\ Rerun("log_play_result", 1, "toast")
        ELSE /\ UNCHANGED <<results_sheet, current_play>>
             /\ Rerun("log_play_result", 1, "error")

\* the "Successful" and "Unsuccessful" buttons (lines 231-235), drawn only
\* while a play is shown
MarkOutcome ==
    \E success \in BOOLEAN, ok \in BOOLEAN :
        /\ current_play # <<>>
        /\ log_play_result(current_play[1].row.PlayName, selected_down,
                           selected_distance, coverage, success, ok)
        /\ sp' = NoCall
        /\ UNCHANGED <<df, selected_down, selected_distance, coverage, favorites, fav_sheet>>

\* add_favorite: one fav_sheet.append_row([play_id]), which returns (ok) or raises
add_favorite(play_id, ok) ==
    IF ok
    THEN /\ fav_sheet' = Append(fav_sheet, <<play_id>>)
         /\ favorites' = favorites \cup {play_id}
         /\ Rerun("add_favorite", 1, "toast")
    ELSE /\ UNCHANGED <<fav_sheet, favorites>>
         /\ Rerun("add_favorite", 1, "error")

\* a button drawn for every shown play, favorited or not
FavoriteButtonAlwaysShown == current_play # <<>>

\* the button guard of line 241
FavoriteButtonShown ==
    /\ current_play # <<>>
    /\ current_play[1].row.PlayID \notin favorites

\* the "Add to Favorites" button (lines 241-243)
AddToFavorites ==
    \E ok \in BOOLEAN :
        /\ FavoriteButtonShown
        /\ add_favorite(current_play[1].row.PlayID, ok)
        /\ sp' = NoCall
        /\ UNCHANGED <<df, selected_down, selected_distance, coverage, current_play,
                       results_sheet>>

Next ==
    \/ SelectDown
    \/ SelectDistance
    \/ SetCoverage
    \/ CallPlay
    \/ MarkOutcome
    \/ AddToFavorites

Spec == Init /\ [][Next]_vars

-----------------------------------------------------------------------------
(* The recommendation as a function of the table and the situation *)

InitEngine ==
    /\ df \in {load_data(x) : x \in RichSheets \cup LongSheets}
    /\ selected_down \in Downs
    /\ selected_distance \in Distances
    /\ coverage \in CoverageSteps
    /\ current_play = <<>>
    /\ favorites = {}
    /\ results_sheet = <<>>
    /\ fav_sheet = <<>>
    /\ now = 0
    /\ sp = NoCall
    /\ run = Idle

\* one call of suggest_play from the "Call a Play" button, once per table and
\* situation
CallEngine ==
    \E shown \in {"", "exception"} :
        /\ ~sp.called
        /\ Recommend(shown)
        /\ run' = [handler |-> "call_play", appends |-> 0, shown |-> shown]
        /\ UNCHANGED <<df, selected_down, selected_distance, coverage, favorites,
                       results_sheet, fav_sheet, now>>

NextEngine == CallEngine

SpecEngine == InitEngine /\ [][NextEngine]_vars

-----------------------------------------------------------------------------
(* Vocabulary of the properties *)

\* the request text of a distance button
DistanceText(distance) ==
    IF distance = "short" THEN T_short
    ELSE IF distance = "medium" THEN T_medium ELSE T_long

\* the one widening rule: 2nd or 3rd down and long
Widened == selected_down \in {"2nd", "3rd"} /\ selected_distance = "long"

\* the rows of the loaded table that the depth filter kept at the last call
Kept == Range(sp.subset)

\* category c has a row among the kept rows
HasRows(c) == \E r \in Kept : r.Cleaned = c

\* the call returned a play
ReturnedPlay == sp.called /\ sp.raised = "" /\ sp.ret # <<>>

\* the depth tags of the explored tables that hold "medium" or "long" in some
\* spelling, and those that do not
TagsWithMediumOrLong == {T_Medium, T_LONG, T_long, T_ShortLong}
TagsWithout == {T_short, NaN}

-----------------------------------------------------------------------------
(* C1 *)

\* C1 as stated: whenever the depth-filtered set is non-empty and some
\* category of the weights dict has a row in it, the call returns a play whose
\* cleaned category has a strictly positive weight and a row in the set.
C1_AsStated ==
    (sp.called /\ Kept # {} /\ \E c \in Categories : HasRows(c))
        => /\ ReturnedPlay
           /\ sp.ret[1].row.Cleaned \in Categories
           /\ weights_for(selected_down, selected_distance)[sp.ret[1].row.Cleaned] > 0
           /\ HasRows(sp.ret[1].row.Cleaned)

\* C1 amended: whenever some category with a strictly positive weight for
\* (down, distance) has a row in the depth-filtered set, the call returns a
\* play whose cleaned category has a strictly positive weight and a row in
\* the set.
C1_PositiveCategoryReturned ==
    (sp.called /\ \E c \in Categories :
                     weights_for(selected_down, selected_distance)[c] > 0 /\ HasRows(c))
        => /\ ReturnedPlay
           /\ sp.ret[1].row.Cleaned \in Categories
           /\ weights_for(selected_down, selected_distance)[sp.ret[1].row.Cleaned] > 0
           /\ HasRows(sp.ret[1].row.Cleaned)

\* a play was returned while a zero-weight category also had rows
C1_Witness ==
    /\ ReturnedPlay
    /\ \E c \in Categories :
          weights_for(selected_down, selected_distance)[c] = 0 /\ HasRows(c)

-----------------------------------------------------------------------------
(* C2 *)

\* C2: on 2nd or 3rd down and long, the filter keeps every row whose depth
\* tag holds "medium" or "long" in any letter case and no row tagged only
\* "short" or with a missing depth.
C2_WideningKeepsMediumAndLong ==
    (sp.called /\ Widened)
        => /\ Kept \subseteq Range(df)
           /\ \A r \in Range(df) :
                /\ r.PlayDepth \in TagsWithMediumOrLong \cup TagsWithout
                /\ r.PlayDepth \in TagsWithMediumOrLong => r \in Kept
                /\ r.PlayDepth \in TagsWithout => r \notin Kept

\* the widened filter kept an upper-case "LONG" row and dropped another row
C2_Witness ==
    /\ sp.called /\ Widened
    /\ \E r \in Kept : r.PlayDepth = T_LONG
    /\ \E r \in Range(df) : r \notin Kept

-----------------------------------------------------------------------------
(* C3 *)

\* the depth tag holds the requested distance, in any letter case
TagMatches(depth, distance) ==
    depth # NaN /\ Contains(Lower(depth), DistanceText(distance))

\* C3 as stated: outside 2nd/3rd and long, every kept row, and so every
\* returned play, has a depth tag that holds the requested distance.
C3_AsStated ==
    (sp.called /\ ~Widened)
        => /\ \A r \in Kept : TagMatches(r.PlayDepth, selected_distance)
           /\ ReturnedPlay => TagMatches(sp.ret[1].row.PlayDepth, selected_distance)

\* C3 amended: outside 2nd/3rd and long the depth filter keeps every row of
\* the table, whatever its depth tag.
C3_NoFilterOutsideWidening ==
    (sp.called /\ ~Widened) => sp.subset = df

\* outside the widening rule a play was returned whose tag does not hold the
\* requested distance
C3_Witness ==
    /\ ReturnedPlay /\ ~Widened
    /\ selected_down # "1st"
    /\ ~TagMatches(sp.ret[1].row.PlayDepth, selected_distance)

-----------------------------------------------------------------------------
(* C4 *)

\* C4: suggest_play always ends by returning a play or None, never by an
\* exception; when every category with rows has weight 0 it returns None.
C4_NoMatchIsNotAnException ==
    sp.called
        => /\ sp.raised = ""
           /\ (\A c \in Categories :
                 HasRows(c) => weights_for(selected_down, selected_distance)[c] = 0)
                => sp.ret = <<>>

-----------------------------------------------------------------------------
(* C5 *)

\* a script run that called log_play_result or add_favorite
LoggingRun == now' = now + 1 /\ run'.handler \in {"log_play_result", "add_favorite"}

\* C5: no logging call surfaces an error, and each logging call leaves its
\* event recorded: the program keeps no local fallback store, so recorded
\* means one more row in one of the two worksheets.
C5_EventNeverLost ==
    [][LoggingRun
        => /\ run'.shown # "error"
           /\ Len(results_sheet') + Len(fav_sheet')
                = Len(results_sheet) + Len(fav_sheet) + 1]_vars

-----------------------------------------------------------------------------
(* C6 *)

\* the effectiveness used for a cell: 0.5 (5 tenths) when missing
Substituted(cell) == IF cell = <<>> THEN 5 ELSE cell[1]

\* C6: in a dropback pool each score is (1 - coverage) * man + coverage * zone
\* with 0.5 for a missing side, so the man value at coverage 0.0 and the zone
\* value at coverage 1.0; in any other pool each score is 0.5 (500
\* thousandths).
C6_ScoreFormula ==
    ReturnedPlay
        => \A p \in Range(sp.pool) :
             IF sp.category = <<T_dropback>>
             THEN /\ p.Score = (100 - coverage) * Substituted(p.row.Man)
                                 + coverage * Substituted(p.row.Zone)
                  /\ coverage = 0 => p.Score = 100 * Substituted(p.row.Man)
                  /\ coverage = 100 => p.Score = 100 * Substituted(p.row.Zone)
             ELSE p.Score = 500

\* a dropback pool scored at coverage 0.0 with a row whose man value is missing
\* and a row whose man value is present
C6_Witness ==
    /\ ReturnedPlay /\ sp.category = <<T_dropback>> /\ coverage = 0
    /\ \E p \in Range(sp.pool) : p.row.Man = <<>> /\ p.row.Zone # <<>> /\ p.Score = 500
    /\ \E p \in Range(sp.pool) : p.row.Man = <<9>> /\ p.Score = 900

-----------------------------------------------------------------------------
(* C7 *)

\* C7: the returned play is a kept row of the sampled category, it is in the
\* top slice, fewer than 10 pool rows score strictly higher, and a pool of at
\* most 10 rows is the top slice whole.
C7_ReturnedFromTopSlice ==
    ReturnedPlay
        => /\ sp.ret[1].row \in Kept
           /\ <<sp.ret[1].row.Cleaned>> = sp.category
           /\ sp.ret[1] \in Range(sp.pool)
           /\ sp.ret[1] \in Range(sp.top)
           /\ Cardinality({p \in Range(sp.pool) : p.Score > sp.ret[1].Score}) < 10
           /\ Len(sp.top) <= 10
           /\ Len(sp.pool) <= 10 => Range(sp.top) = Range(sp.pool)

\* a play was returned from a pool of more than 10 rows in which the last row
\* outscored earlier ones
C7_Witness ==
    /\ ReturnedPlay
    /\ Len(sp.pool) > 10
    /\ \E p \in Range(sp.pool) : p \notin Range(sp.top)
    /\ sp.pool[Len(sp.pool)] \in Range(sp.top)

-----------------------------------------------------------------------------
(* C8 *)

\* C8: the distance is always short, medium or long, and for every
\* (down, distance) but (2nd, long) and (3rd, long), 1st down included, the
\* weights in effect are dropback 0.5, rpo 0.3, run_option 0.2.
C8_DefaultWeights ==
    /\ selected_down \in {"1st", "2nd", "3rd"}
    /\ selected_distance \in {"short", "medium", "long"}
    /\ (sp.called /\ ~Widened)
         => /\ sp.weights[T_dropback] = 5
            /\ sp.weights[T_rpo] = 3
            /\ sp.weights[T_run_option] = 2

\* a call on 1st down, after the distance was changed, drew with the default
\* weights
C8_Witness ==
    /\ sp.called /\ selected_down = "1st" /\ selected_distance = "long"
    /\ sp.raised = "" /\ sp.category = <<T_run_option>>

-----------------------------------------------------------------------------
(* C9 *)

\* C9: a log_play_result run makes exactly one append call; it either appended
\* one row and cleared current_play, or appended nothing and left
\* current_play, favorites, selected_down and selected_distance as they were.
C9_ClearOnlyOnSuccess ==
    [][(now' = now + 1 /\ run'.handler = "log_play_result")
        => /\ run'.appends = 1
           /\ current_play # <<>>
           /\ \/ /\ run'.shown = "toast"
                 /\ Len(results_sheet') = Len(results_sheet) + 1
                 /\ SubSeq(results_sheet', 1, Len(results_sheet)) = results_sheet
                 /\ current_play' = <<>>
              \/ /\ run'.shown = "error"
                 /\ results_sheet' = results_sheet
                 /\ current_play' = current_play
           /\ UNCHANGED <<favorites, selected_down, selected_distance>>]_vars

\* a failed log left the play displayed after an earlier log had succeeded
C9_Witness ==
    /\ run.handler = "log_play_result" /\ run.shown = "error"
    /\ current_play # <<>>
    /\ results_sheet # <<>>

-----------------------------------------------------------------------------
(* C10 *)

\* C10: the favorites are exactly the Play IDs appended to favorite_plays in
\* this session, and no Play ID was appended twice.
C10_FavoritesAppendedOnce ==
    /\ favorites = {fav_sheet[i][1] : i \in DOMAIN fav_sheet}
    /\ \A i, j \in DOMAIN fav_sheet : fav_sheet[i] = fav_sheet[j] => i = j

\* a favorited play is shown again, so the button is withheld
C10_Witness ==
    /\ current_play # <<>>
    /\ current_play[1].row.PlayID \in favorites
    /\ fav_sheet # <<>>
    /\ run.handler = "call_play"

====
